---------------------------- MODULE Spec2Model ----------------------------
(***************************************************************************)
(* Model of sfepy/terms/terms_membrane.py: the Mooney-Rivlin membrane      *)
(* constitutive evaluator (eval_membrane_mooney_rivlin) and the chunked    *)
(* evaluation generator TLMembraneTerm.__call__ with its lazy geometry     *)
(* cache.                                                                  *)
(*                                                                         *)
(* Real-valued quantities are modelled by integers (exact arithmetic, no   *)
(* rounding).  Arrays are functions over 0-based index ranges, as in the   *)
(* source.  Batched array expressions of the source are modelled per       *)
(* (element, quadrature point) entry, with one quadrature point.           *)
(***************************************************************************)
EXTENDS Integers, Sequences, FiniteSets, TLC

VARIABLES
    \* ---- constitutive evaluator driver ----
    mr_args,        \* arguments (a1, a2, mtx_c, c33, mode) of the evaluation
    mr_out,         \* the array returned by eval_membrane_mooney_rivlin
    mr_pc,          \* "args" before the evaluation, "done" after it
    \* ---- TLMembraneTerm instance ----
    mtx_t,          \* self.mtx_t : ig -> None | transforms of the group
    membrane_geo,   \* self.membrane_geo : ig -> None | mapping of the group
    bfg,            \* self.bfg : ig -> None | base function gradients
    n_describe,     \* how often describe_membrane_geometry was entered, per ig
    \* ---- one evaluation: the generator created by __call__ ----
    pc,             \* position of the generator
    call,           \* arguments of the running call
    loc,            \* locals of the running call (mode, c33, per-element data)
    ii,             \* offset of the next chunk (vector_chunk_generator)
    yielded,        \* sequence of the outputs yielded so far
    n_chunks,       \* chunks processed by the running call
    touched         \* per entry of the last chunk output: times it was rotated

vars == <<mr_args, mr_out, mr_pc, mtx_t, membrane_geo, bfg, n_describe,
          pc, call, loc, ii, yielded, n_chunks, touched>>

mr_vars == <<mr_args, mr_out, mr_pc>>

term_vars == <<mtx_t, membrane_geo, bfg, n_describe,
               pc, call, loc, ii, yielded, n_chunks, touched>>

None == <<>>

(***************************************************************************)
(* Bounds of the model.                                                    *)
(***************************************************************************)
MaxCoef == 2        \* material coefficients a1, a2 range over 0..MaxCoef
MaxC == 2           \* entries of mtx_c and c33 range over -MaxC..MaxC
NumIg == 2          \* element groups of the region: igs = 0..NumIg-1
NEl == 3            \* elements of every element group
NEp == 3            \* nodes of an element (n_ep)
MaxShear == 1       \* displacement states 0..MaxShear
MaxDescribe == 3    \* the counter n_describe stops counting here

----------------------------------------------------------------------------
(***************************************************************************)
(* Small dense linear algebra on 0-based arrays.                           *)
(***************************************************************************)
RECURSIVE SumTo(_, _)
SumTo(f, n) == IF n = 0 THEN 0 ELSE f[n - 1] + SumTo(f, n - 1)

\* The array f with its entries evaluated once (an identity: arrays of the
\* source are stored values, not expressions).
Array(f) == IF f = f THEN f ELSE f

Rows(A) == Cardinality(DOMAIN A)
Cols(A) == Cardinality(DOMAIN A[0])

\* A * B
MatMul(A, B) ==
    LET n == Rows(B)
    IN  Array([i \in DOMAIN A |-> [j \in DOMAIN B[0] |->
            SumTo([k \in DOMAIN B |-> A[i][k] * B[k][j]], n)]])

Transpose(A) == Array([j \in DOMAIN A[0] |-> [i \in DOMAIN A |-> A[i][j]]])

MatAdd(A, B) ==
    Array([i \in DOMAIN A |-> [j \in DOMAIN A[0] |-> A[i][j] + B[i][j]]])

MatScale(A, x) ==
    Array([i \in DOMAIN A |-> [j \in DOMAIN A[0] |-> A[i][j] * x]])

\* dot_sequences(mtx, vec, mode) for one item of the sequence.
dot_sequences(A, B, mode) ==
    CASE mode = "AB" -> MatMul(A, B)
      [] mode = "ATB" -> MatMul(Transpose(A), B)
      [] mode = "ABT" -> MatMul(A, Transpose(B))

Min(a, b) == IF a < b THEN a ELSE b

\* dim2sym: number of independent components of a symmetric dim x dim tensor.
dim2sym(dim) == (dim * (dim + 1)) \div 2

----------------------------------------------------------------------------
(***************************************************************************)
(* eval_membrane_mooney_rivlin, for one (element, quadrature point).       *)
(***************************************************************************)

\* line 27
MR_pressure(a12, a22, c11, c22, c33) == c33 * (a12 + a22 * (c11 + c22))

\* A stress evaluation that loses the a12 term of S_11.
MR_stress_lost_a12(a12, a22, c11, c12, c22, c33, pressure) ==
    [i \in 0..2 |-> [j \in 0..0 |->
        CASE i = 0 -> -pressure * c22 * c33 + a22 * (c22 + c33)
          [] i = 1 -> -pressure * c11 * c33 + a12 + a22 * (c11 + c33)
          [] i = 2 -> pressure * c12 * c33 - a22 * c12]]

\* lines 30-35: S_11, S_22, S_12 as a (sym x 1) array.
MR_stress(a12, a22, c11, c12, c22, c33, pressure) ==
    Array([i \in 0..2 |-> [j \in 0..0 |->
        CASE i = 0 -> -pressure * c22 * c33 + a12 + a22 * (c22 + c33)
          [] i = 1 -> -pressure * c11 * c33 + a12 + a22 * (c11 + c33)
          [] i = 2 -> pressure * c12 * c33 - a22 * c12]])

\* A lower triangle whose D_11 lacks the c33 * c22 * dp11 term.
MR_tangent_entries_short_d11(a12, a22, c11, c12, c22, c33, pressure) ==
    LET dp11 == a22 * c33 - pressure * c22 * c33
        dp22 == a22 * c33 - pressure * c11 * c33
        dp12 == 2 * pressure * c12 * c33
    IN  [d11 |-> - 2 * ((a22 - pressure * c22) * c22 * c33 * c33),
         d22 |-> - 2 * ((a22 - pressure * c11) * c11 * c33 * c33
                        + c33 * c11 * dp22),
         d33 |-> - a22 + pressure * (c33 + 2 * c12 * c12 * c33 * c33)
                 + c12 * c33 * dp12,
         d21 |-> 2 * ((a22 - pressure * c33
                       - (a22 - pressure * c11) * c22 * c33 * c33)
                      - c33 * c11 * dp11),
         d31 |-> 2 * (-pressure * c12 * c22 * c33 * c33 + c12 * c33 * dp11),
         d32 |-> 2 * (-pressure * c12 * c11 * c33 * c33 + c12 * c33 * dp22)]

\* lines 40-59: the computed entries D_11, D_22, D_33, D_21, D_31, D_32.
MR_tangent_entries(a12, a22, c11, c12, c22, c33, pressure) ==
    LET dp11 == a22 * c33 - pressure * c22 * c33
        dp22 == a22 * c33 - pressure * c11 * c33
        dp12 == 2 * pressure * c12 * c33
    IN  [d11 |-> - 2 * ((a22 - pressure * c22) * c22 * c33 * c33
                        + c33 * c22 * dp11),
         d22 |-> - 2 * ((a22 - pressure * c11) * c11 * c33 * c33
                        + c33 * c11 * dp22),
         d33 |-> - a22 + pressure * (c33 + 2 * c12 * c12 * c33 * c33)
                 + c12 * c33 * dp12,
         d21 |-> 2 * ((a22 - pressure * c33
                       - (a22 - pressure * c11) * c22 * c33 * c33)
                      - c33 * c11 * dp11),
         d31 |-> 2 * (-pressure * c12 * c22 * c33 * c33 + c12 * c33 * dp11),
         d32 |-> 2 * (-pressure * c12 * c11 * c33 * c33 + c12 * c33 * dp22)]

\* A mirroring with an index slip: out[0,2] is copied from out[2,1].
MR_tangent_mirror_slip(a12, a22, c11, c12, c22, c33, pressure) ==
    LET d == MR_tangent_entries(a12, a22, c11, c12, c22, c33, pressure)
    IN  [i \in 0..2 |-> [j \in 0..2 |->
            CASE i = 0 /\ j = 0 -> d.d11
              [] i = 1 /\ j = 1 -> d.d22
              [] i = 2 /\ j = 2 -> d.d33
              [] i = 1 /\ j = 0 -> d.d21
              [] i = 2 /\ j = 0 -> d.d31
              [] i = 2 /\ j = 1 -> d.d32
              [] i = 0 /\ j = 1 -> d.d21
              [] i = 0 /\ j = 2 -> d.d32
              [] i = 1 /\ j = 2 -> d.d32]]

\* lines 38-63: the (sym x sym) tangent; out[0,1], out[0,2], out[1,2] are
\* assigned from out[1,0], out[2,0], out[2,1].
MR_tangent(a12, a22, c11, c12, c22, c33, pressure) ==
    LET d == MR_tangent_entries(a12, a22, c11, c12, c22, c33, pressure)
    IN  Array([i \in 0..2 |-> [j \in 0..2 |->
            CASE i = 0 /\ j = 0 -> d.d11
              [] i = 1 /\ j = 1 -> d.d22
              [] i = 2 /\ j = 2 -> d.d33
              [] i = 1 /\ j = 0 -> d.d21
              [] i = 2 /\ j = 0 -> d.d31
              [] i = 2 /\ j = 1 -> d.d32
              [] i = 0 /\ j = 1 -> d.d21
              [] i = 0 /\ j = 2 -> d.d31
              [] i = 1 /\ j = 2 -> d.d32]])

\* lines 10-74.  a1 and a2 are arrays whose entry [0][0] is the coefficient.
eval_membrane_mooney_rivlin(a1, a2, mtx_c, c33, mode) ==
    LET a12 == 2 * a1[0][0]
        a22 == 2 * a2[0][0]
        c11 == mtx_c[0][0]
        c12 == mtx_c[0][1]
        c22 == mtx_c[1][1]
        pressure == MR_pressure(a12, a22, c11, c22, c33)
    IN  IF mode = 0
        THEN MR_stress(a12, a22, c11, c12, c22, c33, pressure)
        ELSE MR_tangent(a12, a22, c11, c12, c22, c33, pressure)

\* A material coefficient array: the first coefficient followed by unused ones.
Coef(x) == [i \in 0..0 |-> [j \in 0..0 |-> x]]

\* The symmetric in-plane block with components C11, C12, C22.
MtxC(c11, c12, c22) ==
    [i \in 0..1 |-> [j \in 0..1 |->
        IF i = 0 /\ j = 0 THEN c11 ELSE IF i = 1 /\ j = 1 THEN c22 ELSE c12]]

MRArgs ==
    [a1 : 0..MaxCoef, a2 : 0..MaxCoef,
     c11 : 0..MaxC, c12 : -MaxC..MaxC, c22 : 0..MaxC,
     c33 : 0..MaxC, mode : {0, 1}]

TermIdle ==
    /\ mtx_t = None /\ membrane_geo = None /\ bfg = None
    /\ n_describe = None /\ pc = "off" /\ call = None /\ loc = None
    /\ ii = 0 /\ yielded = <<>> /\ n_chunks = 0 /\ touched = None

MRInit ==
    /\ mr_args \in MRArgs
    /\ mr_out = None
    /\ mr_pc = "args"
    /\ TermIdle

\* One evaluation of the constitutive law on the drawn arguments.
MREvaluate ==
    /\ mr_pc = "args"
    /\ mr_out' = eval_membrane_mooney_rivlin(
                     Coef(mr_args.a1), Coef(mr_args.a2),
                     MtxC(mr_args.c11, mr_args.c12, mr_args.c22),
                     mr_args.c33, mr_args.mode)
    /\ mr_pc' = "done"
    /\ UNCHANGED <<mr_args>>
    /\ UNCHANGED term_vars

MRNext == MREvaluate

SpecMR == MRInit /\ [][MRNext]_vars

----------------------------------------------------------------------------
(***************************************************************************)
(* The collaborators of the term: region, field, mapping service and the   *)
(* helpers of sfepy.mechanics.membranes.  Their code is outside            *)
(* terms_membrane.py; they are modelled from their documented contracts    *)
(* on a small mesh of unit right triangles.                                *)
(***************************************************************************)

\* self.region.igs
Igs == 0..(NumIg - 1)

Els == 0..(NEl - 1)

\* Unit vector of axis k (taken modulo 3).
Axis(k) == [i \in 0..2 |-> IF i = k % 3 THEN 1 ELSE 0]

Cross(a, b) ==
    [i \in 0..2 |->
        a[(i + 1) % 3] * b[(i + 2) % 3] - a[(i + 2) % 3] * b[(i + 1) % 3]]

\* field.coors[sd.econn[:, :sg.nFP]]: the three vertices of every element of
\* group ig.  Element e lies in the plane spanned by two coordinate axes
\* that change with ig + e, with unit legs.
coors(ig) ==
    Array([e \in Els |-> [v \in 0..2 |-> [i \in 0..2 |->
        (IF i = 0 THEN e ELSE IF i = 1 THEN ig ELSE 0)
        + (IF v = 1 THEN Axis(ig + e)[i] ELSE 0)
        + (IF v = 2 THEN Axis(ig + e + 1)[i] ELSE 0)]]])

\* membranes.create_transformation_matrix: the columns of the matrix of an
\* element are its unit tangents t1, t2 and its unit normal n.  (The edges
\* of the mesh have unit length, so the normalisation divides by one.)
create_transformation_matrix(cs) ==
    Array([e \in DOMAIN cs |->
        LET t1 == Array([i \in 0..2 |-> cs[e][1][i] - cs[e][0][i]])
            tl == Array([i \in 0..2 |-> cs[e][2][i] - cs[e][0][i]])
            n == Array(Cross(t1, tl))
            t2 == Array(Cross(n, t1))
        IN  [i \in 0..2 |-> [j \in 0..2 |->
                IF j = 0 THEN t1[i] ELSE IF j = 1 THEN t2[i] ELSE n[i]]]])

\* vm.get_mapping(*qp, poly_space=ps): the mapping of every element at its
\* single quadrature point.  variable(0) is the base function gradient
\* (2 x n_ep), variable(1) the integration weight, variable(2) the volume.
get_mapping(coors_loc) ==
    Array([e \in DOMAIN coors_loc |->
        LET jac == coors_loc[e][1][0] * coors_loc[e][2][1]
                   - coors_loc[e][1][1] * coors_loc[e][2][0]
        IN  [bfg |-> [a \in 0..1 |-> [k \in 0..(NEp - 1) |->
                        IF k = 0 THEN -1 ELSE IF k = a + 1 THEN 1 ELSE 0]],
             det |-> jac,
             volume |-> jac]])

\* The material arguments (a1, a2, h0) of a call.
Materials ==
    { [a1 |-> 1, a2 |-> 0, h0 |-> 1], [a1 |-> 2, a2 |-> 1, h0 |-> 2] }

\* vu.get_state_in_region(...)[sd.leconn]: the nodal displacements of every
\* element in displacement state s, in global coordinates: node 2 is moved
\* by 2 s along the first edge of its element (a simple shear, which keeps
\* the area of the element).
FieldStates ==
    [s \in 0..MaxShear |-> [ig \in Igs |->
        LET ts == create_transformation_matrix(coors(ig))
        IN  Array([e \in Els |-> [k \in 0..(NEp - 1) |-> [i \in 0..2 |->
                IF k = 2 THEN 2 * s * ts[e][i][0] ELSE 0]]])]]

el_u_of(s, ig) == FieldStates[s][ig]

\* membranes.describe_deformation(el_u_loc, bfg) for one element:
\* the in-plane right Cauchy-Green tensor, C33 from incompressibility and
\* the strain variation operator (3 x 3 n_ep, component-major columns).
describe_deformation(el_u_loc, bfg_e) ==
    LET n_ep == Cols(bfg_e)
        du == dot_sequences(bfg_e, el_u_loc, "AB")
        mtx_f == Array([a \in 0..1 |-> [i \in 0..2 |->
                     du[a][i] + (IF a = i THEN 1 ELSE 0)]])
        c == dot_sequences(mtx_f, mtx_f, "ABT")
    IN  [mtx_c |-> c,
         c33 |-> 1 \div (c[0][0] * c[1][1] - c[0][1] * c[0][1]),
         mtx_b |-> [r \in 0..2 |-> [x \in 0..(3 * n_ep - 1) |->
            LET i == x \div n_ep
                k == x % n_ep
            IN  CASE r = 0 -> bfg_e[0][k] * mtx_f[0][i]
                  [] r = 1 -> bfg_e[1][k] * mtx_f[1][i]
                  [] r = 2 -> bfg_e[1][k] * mtx_f[0][i]
                              + bfg_e[0][k] * mtx_f[1][i]]]]

\* membranes.get_tangent_stress_matrix(stress, bfg) for one element: the
\* stress-weighted products of the base function gradients, repeated on
\* the diagonal blocks of the three displacement components.
get_tangent_stress_matrix(stress, bfg_e) ==
    LET n_ep == Cols(bfg_e)
        s == [a \in 0..1 |-> [b \in 0..1 |->
                 IF a = b THEN stress[a][0] ELSE stress[2][0]]]
    IN  Array([x \in 0..(3 * n_ep - 1) |-> [y \in 0..(3 * n_ep - 1) |->
            IF x \div n_ep # y \div n_ep THEN 0
            ELSE SumTo([q \in 0..3 |->
                     s[q \div 2][q % 2]
                     * bfg_e[q \div 2][x % n_ep] * bfg_e[q % 2][y % n_ep]], 4)]])

\* membranes.get_green_strain_sym3d(mtx_c, c33): E = (C - I) / 2 packed as
\* (E11, E22, E33, E12, E13, E23), the transverse shears being zero.
get_green_strain_sym3d(mtx_c, c33) ==
    [r \in 0..5 |-> [j \in 0..0 |->
        CASE r = 0 -> (mtx_c[0][0] - 1) \div 2
          [] r = 1 -> (mtx_c[1][1] - 1) \div 2
          [] r = 2 -> (c33 - 1) \div 2
          [] r = 3 -> mtx_c[0][1] \div 2
          [] OTHER -> 0]]

\* geo.integrate_chunk(out, in, lchunk): row i of out is the integral of the
\* item lchunk[i] of `in` over the element lchunk[i].
integrate_chunk(in, geo, lchunk) ==
    Array([i \in DOMAIN lchunk |->
        MatScale(in[lchunk[i]], geo[lchunk[i]].det)])

\* vector_chunk_generator / split_range: the size of the chunk that starts
\* at offset `at`; a chunk size of None or 0 means one chunk.
chunk_len(total_size, chunk_size, at) ==
    Min(IF chunk_size = 0 THEN total_size ELSE chunk_size, total_size - at)

\* self.char_fun.get_local_chunk(): indices local to the element group.
local_chunk(at, size) == [i \in 0..(size - 1) |-> at + i]

\* The cells of the chunk in the numbering of the mesh (els[chunk]).
cells_of(ig, lchunk) == [i \in DOMAIN lchunk |-> ig * NEl + lchunk[i]]

\* The index pairs of a packed symmetric 3 x 3 tensor.
SymIndex(r) ==
    CASE r = 0 -> <<0, 0>> [] r = 1 -> <<1, 1>> [] r = 2 -> <<2, 2>>
      [] r = 3 -> <<0, 1>> [] r = 4 -> <<0, 2>> [] r = 5 -> <<1, 2>>

\* transform_data(out, mtx=mtx) for one item: T * M * T^T on the packed
\* symmetric tensor.
transform_data(d, t) ==
    LET full == Array([i \in 0..2 |-> [j \in 0..2 |->
                    LET r == CHOOSE q \in 0..5 :
                                 SymIndex(q) = <<Min(i, j), i + j - Min(i, j)>>
                    IN  d[r][0]]])
        rot == MatMul(MatMul(t, full), Transpose(t))
    IN  [r \in 0..5 |-> [j \in 0..0 |->
            rot[SymIndex(r)[1]][SymIndex(r)[2]]]]

----------------------------------------------------------------------------
(***************************************************************************)
(* TLMembraneTerm.                                                         *)
(***************************************************************************)

\* The values diff_var takes: None, the name of the state argument and the
\* name of another variable.
StateName == "u"
DiffVars == {"None", StateName, "p"}

TermModes == {"None", "strain", "stress", "flux"}

\* chunk_size: 0 stands for None.
ChunkSizes == 0..(NEl - 1)

\* Where describe_membrane_geometry may raise: nowhere, or in lines 105-113
\* (create_mapping, get_qp, PolySpace.any_from_args, get_mapping).
FailPoints == {"none", "mapping"}

\* lines 99-117: what describe_membrane_geometry computes for ig.
geometry_of(ig) ==
    LET cs == coors(ig)                                            \* 99
        t == create_transformation_matrix(cs)                      \* 102
        coors_loc == Array([e \in Els |-> [v \in 0..2 |->         \* 105
            dot_sequences([r \in 0..0 |-> [i \in 0..2 |->
                               cs[e][v][i] - cs[e][0][i]]], t[e], "AB")[0]]])
        geo == get_mapping(coors_loc)                              \* 109-113
    IN  [mtx_t |-> t, membrane_geo |-> geo,
         bfg |-> Array([e \in Els |-> geo[e].bfg])]                \* 117

\* geometry_of, evaluated once for every group.
Geometry == [ig \in Igs |-> geometry_of(ig)]

\* lines 97-117: the entries of the three dictionaries for ig when the
\* function has returned or raised at `fail`.
describe_membrane_geometry(ig, fail) ==
    LET g == Geometry[ig]
    IN  CASE fail = "mapping" ->
               [mtx_t |-> g.mtx_t, membrane_geo |-> membrane_geo[ig],
                bfg |-> bfg[ig], raised |-> TRUE]
          [] OTHER ->
               [mtx_t |-> g.mtx_t, membrane_geo |-> g.membrane_geo,
                bfg |-> g.bfg, raised |-> FALSE]

\* A guard that describes the geometry on every call.
cache_miss_always(ig) == TRUE

\* line 143
cache_miss(ig) == mtx_t[ig] = None

\* A shape function that treats every other diff_var as the residual case.
get_shape_lenient(n_ep, diff_var, chunk_size) ==
    IF diff_var = StateName
    THEN [raised |-> FALSE,
          shape |-> <<chunk_size, 1, 3 * n_ep, 3 * n_ep>>, mode |-> 1]
    ELSE [raised |-> FALSE,
          shape |-> <<chunk_size, 1, 3 * n_ep, 1>>, mode |-> 0]

\* lines 119-131, with dim = 3; `raised` stands for raise StopIteration.
get_shape(n_ep, diff_var, chunk_size) ==
    IF diff_var = "None"
    THEN [raised |-> FALSE,
          shape |-> <<chunk_size, 1, 3 * n_ep, 1>>, mode |-> 0]
    ELSE IF diff_var = StateName
    THEN [raised |-> FALSE,
          shape |-> <<chunk_size, 1, 3 * n_ep, 3 * n_ep>>, mode |-> 1]
    ELSE [raised |-> TRUE, shape |-> <<>>, mode |-> 0]

\* lines 150-161: the deformation of every element, from the displacement
\* state u, the transforms ts and the gradients bs.
deformation_of(u, ig, ts, bs) ==
    LET el_u == el_u_of(u, ig)                                     \* 151-152
    IN  [e \in Els |->
            describe_deformation(
                dot_sequences(el_u[e], ts[e], "AB"), bs[e])]       \* 156, 161

\* deformation_of on the described geometry, evaluated once for every
\* displacement state and group.
Deformations ==
    [u \in 0..MaxShear |-> [ig \in Igs |->
        Array(deformation_of(u, ig, Geometry[ig].mtx_t, Geometry[ig].bfg))]]

\* A deformation whose c33 is scaled by the first material coefficient.
call_deformation_with_a1(mat, u, ig, ts, bs) ==
    LET dfm == deformation_of(u, ig, ts, bs)
    IN  [e \in Els |->
            [mtx_c |-> dfm[e].mtx_c, c33 |-> dfm[e].c33 * mat.a1,
             mtx_b |-> dfm[e].mtx_b]]

\* line 161: describe_deformation(el_u_loc, bfg) as __call__ invokes it;
\* the material `mat` of the call is not among its arguments.
call_deformation(mat, u, ig, ts, bs) ==
    IF ts = Geometry[ig].mtx_t /\ bs = Geometry[ig].bfg
    THEN Deformations[u][ig]
    ELSE deformation_of(u, ig, ts, bs)

\* lines 167-170: the force density B^T S h0 of every element.
residual_density(mat, dfm) ==
    [e \in DOMAIN dfm |->
        LET d == dfm[e]
            crt == eval_membrane_mooney_rivlin(
                       Coef(mat.a1), Coef(mat.a2), d.mtx_c, d.c33, 0)
            bts == dot_sequences(Array(d.mtx_b), crt, "ATB")
        IN  MatScale(bts, mat.h0)]

\* lines 167, 186-193: the tangent density (K_ts + B^T D B) h0.
tangent_density(mat, dfm, bs) ==
    [e \in DOMAIN dfm |->
        LET d == dfm[e]
            crt == eval_membrane_mooney_rivlin(
                       Coef(mat.a1), Coef(mat.a2), d.mtx_c, d.c33, 1)
            mtx_b == Array(d.mtx_b)
            btd == dot_sequences(mtx_b, crt, "ATB")
            btdb == dot_sequences(btd, mtx_b, "AB")
            stress == eval_membrane_mooney_rivlin(
                       Coef(mat.a1), Coef(mat.a2), d.mtx_c, d.c33, 0)
            kts == get_tangent_stress_matrix(stress, bs[e])
        IN  MatScale(MatAdd(kts, btdb), mat.h0)]

\* lines 213-224: the strain or stress of every element as a packed
\* symmetric 3-d tensor.
post_density(term_mode, mat, dfm) ==
    [e \in DOMAIN dfm |->
        LET d == dfm[e]
        IN  IF term_mode = "strain"
            THEN get_green_strain_sym3d(d.mtx_c, d.c33)
            ELSE LET stress == eval_membrane_mooney_rivlin(
                           Coef(mat.a1), Coef(mat.a2), d.mtx_c, d.c33, 0)
                 IN  Array([r \in 0..(dim2sym(Rows(d.mtx_c) + 1) - 1) |->
                      [j \in 0..0 |->
                         CASE r = 0 -> stress[0][0]
                           [] r = 1 -> stress[1][0]
                           [] r = 3 -> stress[2][0]
                           [] OTHER -> 0]])]

\* The array integrated by the loops of a call (bts * h0, mtx_k * h0 or
\* out_qp), which the prologue computes from the arguments of the call and
\* the cached transforms ts and gradients bs.
density_of(mat, u, ig, term_mode, mode, ts, bs) ==
    LET dfm == call_deformation(mat, u, ig, ts, bs)
    IN  IF term_mode = "None"
        THEN IF mode = 0
             THEN residual_density(mat, dfm)
             ELSE tangent_density(mat, dfm, bs)
        ELSE post_density(term_mode, mat, dfm)

\* density_of on the described geometry, evaluated once for every material,
\* displacement state, group and mode.
Densities ==
    [mat \in Materials |-> [u \in 0..MaxShear |-> [ig \in Igs |->
        [term_mode \in {"None", "strain", "stress"} |-> [mode \in 0..1 |->
            Array(density_of(mat, u, ig, term_mode, mode,
                             Geometry[ig].mtx_t, Geometry[ig].bfg))]]]]]

call_density(c, mode, ts, bs) ==
    IF ts = Geometry[c.ig].mtx_t /\ bs = Geometry[c.ig].bfg
    THEN Densities[c.mat][c.u][c.ig][c.term_mode][mode]
    ELSE density_of(c.mat, c.u, c.ig, c.term_mode, mode, ts, bs)

\* A slice that takes the three consecutive entries of node iep.
node_slice_contiguous(start, step, len) ==
    [d \in 0..2 |-> 3 * start + d]

\* slice(start, None, step) on an axis of length len, lines 179, 204, 206:
\* the indices start, start + step, ... below len, in order.
node_slice(start, step, len) ==
    [d \in 0..(((len - start + step - 1) \div step) - 1) |-> start + d * step]

SliceSet(sl) == {sl[d] : d \in DOMAIN sl}

SlicePos(sl, x) == CHOOSE d \in DOMAIN sl : sl[d] = x

\* lines 178-181: out[:, 0, ir, 0] = T * out[:, 0, ir, 0] for the nodes
\* iep, iep + 1, ..., n_ep - 1 in turn.  `acc` is the chunk output with the
\* number of assignments every entry has received.
RECURSIVE rotate_nodes(_, _, _, _)
rotate_nodes(acc, tc, n_ep, iep) ==
    IF iep >= n_ep THEN acc
    ELSE
      LET ir == node_slice(iep, n_ep, Rows(acc.out[0]))
          irs == SliceSet(ir)
          fn == Array([i \in DOMAIN acc.out |->
                    [d \in DOMAIN ir |-> [z \in 0..0 |-> acc.out[i][ir[d]][0]]]])
          new == Array([i \in DOMAIN acc.out |->
                     dot_sequences(tc[i], fn[i], "AB")])
      IN  rotate_nodes(
            [out |-> Array([i \in DOMAIN acc.out |->
                       [x \in DOMAIN acc.out[i] |->
                          IF x \in irs
                          THEN [z \in 0..0 |-> new[i][SlicePos(ir, x)][0]]
                          ELSE acc.out[i][x]]]),
             touched |-> Array([x \in DOMAIN acc.touched |->
                          IF x \in irs
                          THEN [z \in 0..0 |-> acc.touched[x][0] + 1]
                          ELSE acc.touched[x]])],
            tc, n_ep, iep + 1)

\* lines 203-208: out[:, 0, ir, ic] = T * out[:, 0, ir, ic] * T^T for the
\* node pairs (iepr, iepc) in row-major order; p = iepr * n_ep + iepc.
RECURSIVE rotate_blocks(_, _, _, _)
rotate_blocks(acc, tc, n_ep, p) ==
    IF p >= n_ep * n_ep THEN acc
    ELSE
      LET ir == node_slice(p \div n_ep, n_ep, Rows(acc.out[0]))
          ic == node_slice(p % n_ep, n_ep, Cols(acc.out[0]))
          irs == SliceSet(ir)
          ics == SliceSet(ic)
          fn == Array([i \in DOMAIN acc.out |->
                    [d \in DOMAIN ir |-> [f \in DOMAIN ic |->
                        acc.out[i][ir[d]][ic[f]]]]])
          new == Array([i \in DOMAIN acc.out |->
                    dot_sequences(dot_sequences(tc[i], fn[i], "AB"),
                                  tc[i], "ABT")])
      IN  rotate_blocks(
            [out |-> Array([i \in DOMAIN acc.out |->
                       [x \in DOMAIN acc.out[i] |->
                          IF x \in irs
                          THEN [y \in DOMAIN acc.out[i][x] |->
                                  IF y \in ics
                                  THEN new[i][SlicePos(ir, x)][SlicePos(ic, y)]
                                  ELSE acc.out[i][x][y]]
                          ELSE acc.out[i][x]]]),
             touched |-> Array([x \in DOMAIN acc.touched |->
                          IF x \in irs
                          THEN [y \in DOMAIN acc.touched[x] |->
                                  acc.touched[x][y]
                                  + (IF y \in ics THEN 1 ELSE 0)]
                          ELSE acc.touched[x]])],
            tc, n_ep, p + 1)

ZeroLike(m) == [x \in DOMAIN m |-> [y \in DOMAIN m[x] |-> 0]]

\* A chunk transform that takes the first rows of mtx_t instead of the rows
\* of the chunk.
chunk_transforms_leading(ts, lchunk) == [i \in DOMAIN lchunk |-> ts[i]]

\* mtx_t[lchunk], lines 181 and 202
chunk_transforms(ts, lchunk) ==
    Array([i \in DOMAIN lchunk |-> ts[lchunk[i]]])

\* lines 173-181: one residual chunk, integrated and rotated.
residual_chunk(val, geo, ts, lchunk, n_ep) ==
    LET out == integrate_chunk(val, geo, lchunk)                   \* 174
    IN  rotate_nodes([out |-> out, touched |-> ZeroLike(out[0])],
                     chunk_transforms(ts, lchunk), n_ep, 0)

\* lines 196-208: one tangent chunk, integrated and rotated.
tangent_chunk(val, geo, ts, lchunk, n_ep) ==
    LET out == integrate_chunk(val, geo, lchunk)                   \* 197
    IN  rotate_blocks([out |-> out, touched |-> ZeroLike(out[0])],
                      chunk_transforms(ts, lchunk), n_ep, 0)

\* lines 228-231: one chunk of the strain / stress output.  The integrand
\* handed to integrate_chunk is out_qp[lchunk], which integrate_chunk
\* indexes by lchunk again: an index past its end reads the item `stray`.
\* transform_data gets the whole mtx_t and pairs item i with mtx_t[i].
post_chunk(out_qp, geo, ts, lchunk, stray) ==
    LET in == [i \in DOMAIN lchunk |-> out_qp[lchunk[i]]]
        out == [i \in DOMAIN lchunk |->                             \* 229
                   MatScale(IF lchunk[i] \in DOMAIN in
                            THEN in[lchunk[i]] ELSE out_qp[stray],
                            geo[lchunk[i]].det)]
        rot == [i \in DOMAIN lchunk |-> transform_data(out[i], ts[i])] \* 230
    IN  [i \in DOMAIN lchunk |->                                    \* 231
            [r \in DOMAIN rot[i] |-> [j \in 0..0 |->
                rot[i][r][0] \div geo[lchunk[i]].volume]]]

----------------------------------------------------------------------------
(***************************************************************************)
(* The term as a state machine: __init__, then evaluations one after the   *)
(* other.  An evaluation is the generator made by __call__, driven by its  *)
(* caller: the prologue (lines 137-170 or the lines up to the loop of the  *)
(* mode), one step per chunk, and the end of the iteration.                *)
(***************************************************************************)

\* The locals of a call.  exc is the exception that ended it ("none" when
\* none did), described whether the call ran describe_membrane_geometry.
Locals(exc, described, mode, n_ep, c33) ==
    [exc |-> exc, described |-> described, mode |-> mode, n_ep |-> n_ep,
     c33 |-> c33, out1 |-> None, chunk |-> None]

\* lines 89-95
Init ==
    /\ mtx_t = [ig \in Igs |-> None]
    /\ membrane_geo = [ig \in Igs |-> None]
    /\ bfg = [ig \in Igs |-> None]
    /\ n_describe = [ig \in Igs |-> 0]
    /\ pc = "idle" /\ call = None /\ loc = None
    /\ ii = 0 /\ yielded = <<>> /\ n_chunks = 0 /\ touched = None
    /\ mr_args = None /\ mr_out = None /\ mr_pc = "off"

\* lines 133-170, 186-193, 213-226: the call and the prologue of the
\* generator, up to the first chunk.  `fail` is where the geometry
\* description raises.  A StopIteration raised inside a generator either
\* ends the iteration, or the interpreter turns it into a RuntimeError
\* (PEP 479): both outcomes are possible.
Call(dv, tm, cs, ig, mat, u, fail) ==
    /\ pc = "idle"
    /\ LET miss == cache_miss(ig)                                  \* 143
           d == IF miss
                THEN describe_membrane_geometry(ig, fail)          \* 144
                ELSE [mtx_t |-> mtx_t[ig],
                      membrane_geo |-> membrane_geo[ig],
                      bfg |-> bfg[ig], raised |-> FALSE]
       IN  /\ ~miss => fail = "none"
           /\ mtx_t' = [mtx_t EXCEPT ![ig] = d.mtx_t]
           /\ membrane_geo' = [membrane_geo EXCEPT ![ig] = d.membrane_geo]
           /\ bfg' = [bfg EXCEPT ![ig] = d.bfg]
           /\ n_describe' = [n_describe EXCEPT
                  ![ig] = Min(@ + (IF miss THEN 1 ELSE 0), MaxDescribe)]
           /\ call' = [diff_var |-> dv, term_mode |-> tm, chunk_size |-> cs,
                       ig |-> ig, mat |-> mat, u |-> u]
           /\ ii' = 0 /\ yielded' = <<>> /\ n_chunks' = 0 /\ touched' = None
           /\ IF d.raised
              THEN /\ pc' = "error"
                   /\ loc' = Locals("GeometryError", miss, 0, 0, None)
              ELSE IF d.bfg = None
              THEN \* line 159: bfg.shape of None
                   /\ pc' = "error"
                   /\ loc' = Locals("AttributeError", miss, 0, 0, None)
              ELSE
                LET n_ep == Cols(d.bfg[0])                          \* 159
                    dfm == call_deformation(mat, u, ig, d.mtx_t, d.bfg)
                    c33 == [e \in Els |-> dfm[e].c33]               \* 161
                    sh == get_shape(n_ep, dv, cs)                   \* 163
                IN  IF sh.raised
                    THEN \/ /\ pc' = "error"
                            /\ loc' = Locals("RuntimeError", miss, 0,
                                             n_ep, c33)
                         \/ /\ pc' = "done"
                            /\ loc' = Locals("StopIteration", miss, 0,
                                             n_ep, c33)
                    ELSE /\ loc' = Locals("none", miss, sh.mode, n_ep, c33)
                         /\ pc' = IF tm = "None" THEN "loop"        \* 165
                                  ELSE IF tm \in {"strain", "stress"}
                                  THEN "post"                       \* 212
                                  ELSE "done"   \* no branch is taken
    /\ UNCHANGED mr_vars

\* lines 172-183: one iteration of the residual loop, up to its yield.
ResidualChunk ==
    /\ pc = "loop" /\ loc.mode = 0 /\ ii < NEl
    /\ LET size == chunk_len(NEl, call.chunk_size, ii)
           lchunk == local_chunk(ii, size)                          \* 173
           val == call_density(call, loc.mode, mtx_t[call.ig], bfg[call.ig])
           r == residual_chunk(val, membrane_geo[call.ig],
                               mtx_t[call.ig], lchunk, loc.n_ep)
       IN  /\ yielded' = Append(yielded,
                  [out |-> r.out, idx |-> lchunk, status |-> 0])    \* 183
           /\ touched' = r.touched
           /\ ii' = ii + size
    /\ n_chunks' = n_chunks + 1
    /\ UNCHANGED <<mtx_t, membrane_geo, bfg, n_describe, pc, call, loc>>
    /\ UNCHANGED mr_vars

\* lines 195-210: one iteration of the tangent loop, up to its yield.
TangentChunk ==
    /\ pc = "loop" /\ loc.mode # 0 /\ ii < NEl
    /\ LET size == chunk_len(NEl, call.chunk_size, ii)
           lchunk == local_chunk(ii, size)                          \* 196
           val == call_density(call, loc.mode, mtx_t[call.ig], bfg[call.ig])
           r == tangent_chunk(val, membrane_geo[call.ig],
                              mtx_t[call.ig], lchunk, loc.n_ep)
       IN  /\ yielded' = Append(yielded,
                  [out |-> r.out, idx |-> lchunk, status |-> 0])    \* 210
           /\ touched' = r.touched
           /\ ii' = ii + size
    /\ n_chunks' = n_chunks + 1
    /\ UNCHANGED <<mtx_t, membrane_geo, bfg, n_describe, pc, call, loc>>
    /\ UNCHANGED mr_vars

\* The chunks are exhausted: the generator returns.
LoopEnd ==
    /\ pc = "loop" /\ ii = NEl
    /\ pc' = "done"
    /\ UNCHANGED <<mtx_t, membrane_geo, bfg, n_describe, call, loc, ii,
                   yielded, n_chunks, touched>>
    /\ UNCHANGED mr_vars

\* lines 227-231: one iteration of the strain / stress loop, which yields
\* nothing.  When the chunk is not the whole group, the chunk and mtx_t
\* differ in length and the integrand is indexed past its end: the
\* collaborators either raise (`raise`) or go on with the item `stray`.
PostChunk(raise, stray) ==
    /\ pc = "post" /\ ii < NEl
    /\ LET size == chunk_len(NEl, call.chunk_size, ii)
           lchunk == local_chunk(ii, size)                          \* 228
       IN  /\ size = NEl => ~raise
           /\ (ii = 0 \/ raise) => stray = 0
           /\ IF raise
              THEN /\ pc' = "error"
                   /\ loc' = [loc EXCEPT !.exc = "ValueError"]
                   /\ UNCHANGED ii
              ELSE /\ pc' = pc
                   /\ loc' = [loc EXCEPT
                        !.out1 = post_chunk(
                            call_density(call, loc.mode, mtx_t[call.ig],
                                         bfg[call.ig]),
                            membrane_geo[call.ig], mtx_t[call.ig], lchunk,
                            stray),
                        !.chunk = cells_of(call.ig, lchunk)]
                   /\ ii' = ii + size
    /\ n_chunks' = n_chunks + 1
    /\ UNCHANGED <<mtx_t, membrane_geo, bfg, n_describe, call, yielded,
                   touched>>
    /\ UNCHANGED mr_vars

\* line 233: after the loop, the output of the last chunk is yielded and
\* the generator returns.
PostYield ==
    /\ pc = "post" /\ ii = NEl
    /\ yielded' = Append(yielded,
           [out |-> loc.out1, idx |-> loc.chunk, status |-> 0])
    /\ pc' = "done"
    /\ UNCHANGED <<mtx_t, membrane_geo, bfg, n_describe, call, loc, ii,
                   n_chunks, touched>>
    /\ UNCHANGED mr_vars

\* The caller is done with the evaluation (or has caught its exception);
\* the term and its dictionaries stay.
Return ==
    /\ pc \in {"done", "error"}
    /\ pc' = "idle" /\ call' = None /\ loc' = None
    /\ ii' = 0 /\ yielded' = <<>> /\ n_chunks' = 0 /\ touched' = None
    /\ UNCHANGED <<mtx_t, membrane_geo, bfg, n_describe>>
    /\ UNCHANGED mr_vars

Next ==
    \/ \E dv \in DiffVars, tm \in TermModes, cs \in ChunkSizes, ig \in Igs,
          mat \in Materials, u \in 0..MaxShear, fail \in FailPoints :
            Call(dv, tm, cs, ig, mat, u, fail)
    \/ ResidualChunk
    \/ TangentChunk
    \/ LoopEnd
    \/ \E raise \in BOOLEAN, stray \in Els : PostChunk(raise, stray)
    \/ PostYield
    \/ Return

Spec == Init /\ [][Next]_vars

----------------------------------------------------------------------------
(***************************************************************************)
(* Properties of the constitutive evaluator (checked under SpecMR).        *)
(***************************************************************************)
MRDone(mode) == mr_pc = "done" /\ mr_args.mode = mode

\* The stress at the drawn arguments with one component of (C11, C22, C12,
\* c33) shifted by d: which = 0, 1, 2 shifts C11, C22, C12 and 3 shifts c33.
StressShifted(which, d) ==
    eval_membrane_mooney_rivlin(
        Coef(mr_args.a1), Coef(mr_args.a2),
        MtxC(mr_args.c11 + (IF which = 0 THEN d ELSE 0),
             mr_args.c12 + (IF which = 2 THEN d ELSE 0),
             mr_args.c22 + (IF which = 1 THEN d ELSE 0)),
        mr_args.c33 + (IF which = 3 THEN d ELSE 0), 0)

\* Partial derivative of stress component i with respect to component
\* `which`, the others held fixed.  Each S_i is a polynomial of degree at
\* most two in every single argument, so the central difference with step 1
\* is the exact derivative.
DStress(i, which) ==
    (StressShifted(which, 1)[i][0] - StressShifted(which, -1)[i][0]) \div 2

\* Derivative of c33 = 1 / (C11 * C22 - C12^2) with respect to C11, C22, C12.
DC33(j) ==
    CASE j = 0 -> -mr_args.c22 * mr_args.c33 * mr_args.c33
      [] j = 1 -> -mr_args.c11 * mr_args.c33 * mr_args.c33
      [] j = 2 -> 2 * mr_args.c12 * mr_args.c33 * mr_args.c33

\* d(E11, E22, 2 E12) / d(C11, C22, C12) inverted: dC_j = StrainFactor(j) dE_j.
StrainFactor(j) == IF j = 2 THEN 1 ELSE 2

\* C5: in mode 0 with C11 = C22 = 1, C12 = 0 and c33 = 1 the returned stress
\* is S11 = S22 = S12 = 0, for every a1 and a2.
C5_ZeroDisplacementStressFree ==
    (MRDone(0) /\ mr_args.c11 = 1 /\ mr_args.c22 = 1 /\ mr_args.c12 = 0
               /\ mr_args.c33 = 1)
        => (mr_out[0][0] = 0 /\ mr_out[1][0] = 0 /\ mr_out[2][0] = 0)

C5_Witness ==
    /\ MRDone(0) /\ mr_args.c11 = 1 /\ mr_args.c22 = 1 /\ mr_args.c12 = 0
    /\ mr_args.c33 = 1 /\ mr_args.a1 > 0 /\ mr_args.a2 > 0
    /\ mr_out[0][0] = 0

\* C6: the tangent returned in tangent mode is symmetric, D[i][j] = D[j][i],
\* and its upper-triangle entries are the computed lower-triangle entries
\* D21, D31, D32.
C6_TangentSymmetric ==
    MRDone(1) =>
        LET a12 == 2 * mr_args.a1
            a22 == 2 * mr_args.a2
            d == MR_tangent_entries(a12, a22, mr_args.c11, mr_args.c12,
                     mr_args.c22, mr_args.c33,
                     MR_pressure(a12, a22, mr_args.c11, mr_args.c22,
                                 mr_args.c33))
        IN  /\ \A i, j \in 0..2 : mr_out[i][j] = mr_out[j][i]
            /\ mr_out[0][1] = d.d21 /\ mr_out[1][0] = d.d21
            /\ mr_out[0][2] = d.d31 /\ mr_out[2][0] = d.d31
            /\ mr_out[1][2] = d.d32 /\ mr_out[2][1] = d.d32

C6_Witness ==
    /\ MRDone(1)
    /\ mr_out[2][0] # mr_out[2][1]
    /\ mr_out[0][2] = mr_out[2][0] /\ mr_out[0][2] # 0

\* C7 as claimed: the mode-1 tangent equals the Jacobian of the mode-0 stress
\* (S11, S22, S12) with respect to (C11, C22, C12) at fixed c33.
C7_TangentIsJacobianAtFixedC33 ==
    MRDone(1) => \A i, j \in 0..2 : mr_out[i][j] = DStress(i, j)

\* C7 amended: the mode-1 tangent is the Jacobian of the mode-0 stress with
\* respect to the strain components (E11, E22, 2 E12), C = 2 E + I, taken
\* with c33 following mtx_c as c33 = 1 / (C11 C22 - C12^2):
\*   D[i][j] = f_j * (dS_i/dC_j + dS_i/dc33 * dc33/dC_j),  f = (2, 2, 1).
C7_TangentIsStrainJacobian ==
    MRDone(1) =>
        \A i, j \in 0..2 :
            mr_out[i][j] =
                StrainFactor(j) * (DStress(i, j) + DStress(i, 3) * DC33(j))

C7_Witness ==
    /\ MRDone(1)
    /\ mr_args.a1 > 0 /\ mr_args.a2 > 0 /\ mr_args.c12 # 0
    /\ mr_args.c33 > 0 /\ mr_args.c11 # mr_args.c22
    /\ mr_out[0][0] # DStress(0, 0)
    /\ mr_out[0][0] = 2 * (DStress(0, 0) + DStress(0, 3) * DC33(0))

----------------------------------------------------------------------------
(***************************************************************************)
(* Properties of the geometry cache and of the control flow of __call__    *)
(* (checked under Spec).                                                   *)
(***************************************************************************)
Finished == pc \in {"done", "error"}

Cached(ig) == mtx_t[ig] # None /\ membrane_geo[ig] # None /\ bfg[ig] # None

\* C10: after any sequence of calls, failed geometry descriptions included,
\* the entries mtx_t[ig], membrane_geo[ig] and bfg[ig] of every element
\* group are all None or all set.
C10_CacheEntriesSetTogether ==
    \A ig \in Igs :
        \/ mtx_t[ig] = None /\ membrane_geo[ig] = None /\ bfg[ig] = None
        \/ Cached(ig)

BadDiffVar == Finished /\ call.diff_var \notin {"None", StateName}

C3_BadTermModeIsFatal ==
    (/\ Finished
     /\ call.term_mode \notin {"None", "strain", "stress"}
     /\ call.diff_var \in {"None", StateName})
        => pc = "error"

----------------------------------------------------------------------------
(***************************************************************************)
(* Properties of the chunk outputs (checked under Spec).                   *)
(***************************************************************************)
\* The index under which the element e of the group of the call is
\* yielded: lchunk in the residual and tangent loops (lines 183, 210),
\* chunk after the strain / stress loop (line 233).
YieldIndex(e) ==
    IF call.term_mode = "None" THEN e ELSE cells_of(call.ig, <<e>>)[1]

\* The output of the call when the whole group is one chunk.
WholeBatch ==
    LET whole == local_chunk(0, NEl)
        ts == mtx_t[call.ig]
        geo == membrane_geo[call.ig]
        val == call_density(call, loc.mode, ts, bfg[call.ig])
    IN  IF call.term_mode = "None"
        THEN IF loc.mode = 0
             THEN residual_chunk(val, geo, ts, whole, loc.n_ep).out
             ELSE tangent_chunk(val, geo, ts, whole, loc.n_ep).out
        ELSE post_chunk(val, geo, ts, whole, 0)

\* The places <<k, i>> of the yielded outputs that hold the element e.
PlacesOf(e) ==
    UNION {{<<k, i>> : i \in {j \in DOMAIN yielded[k].idx :
                                  yielded[k].idx[j] = YieldIndex(e)}} :
           k \in DOMAIN yielded}

\* C1: when a call in residual, tangent, 'strain' or 'stress' mode has
\* completed, whatever the chunk size, every element of the group is held
\* by exactly one yielded output, with the result of the evaluation of the
\* whole group as a single chunk.
C1_ChunkSizeIndependence ==
    (/\ pc = "done" /\ loc.exc = "none"
     /\ call.term_mode \in {"None", "strain", "stress"})
        => \A e \in Els :
              /\ Cardinality(PlacesOf(e)) = 1
              /\ \A pl \in PlacesOf(e) :
                    yielded[pl[1]].out[pl[2]] = WholeBatch[e]

\* The chunk of the last yielded output and its integrated, not yet
\* rotated, value (lines 174, 197).
LastYield == yielded[Len(yielded)]

LastIntegrated ==
    integrate_chunk(
        call_density(call, loc.mode, mtx_t[call.ig], bfg[call.ig]),
        membrane_geo[call.ig], LastYield.idx)

\* The strided index set of the node k of an element with n nodes.
Strided(k, n) == {k, k + n, k + 2 * n}

\* C8: in the residual and tangent loops the index sets of the slices
\* ir (and ic) are the strided sets, pairwise disjoint and covering the
\* 3 n_ep degrees of freedom; every entry of a chunk output is assigned
\* once, the sub-vector of every node being T * sub-vector and the block of
\* every node pair T * block * T^T, with T = mtx_t[lchunk[i]] for the item
\* i of the chunk.
C8_RotationTouchesEveryEntryOnce ==
    (pc = "loop" /\ n_chunks > 0)
        => LET n == loc.n_ep
               y == LastYield
               in == LastIntegrated
               ts == mtx_t[call.ig]
           IN  /\ \A k \in 0..(n - 1) :
                     SliceSet(node_slice(k, n, 3 * n)) = Strided(k, n)
               /\ \A k, l \in 0..(n - 1) :
                     k # l => Strided(k, n) \cap Strided(l, n) = {}
               /\ UNION {Strided(k, n) : k \in 0..(n - 1)} = 0..(3 * n - 1)
               /\ \A x \in DOMAIN touched : \A z \in DOMAIN touched[x] :
                     touched[x][z] = 1
               /\ \A i \in DOMAIN y.idx :
                    LET t == ts[y.idx[i]]
                    IN  IF loc.mode = 0
                        THEN \A k \in 0..(n - 1), d \in 0..2 :
                               y.out[i][k + d * n][0]
                                 = SumTo([q \in 0..2 |->
                                       t[d][q] * in[i][k + q * n][0]], 3)
                        ELSE \A k, l \in 0..(n - 1), d, f \in 0..2 :
                               y.out[i][k + d * n][l + f * n]
                                 = SumTo([q \in 0..8 |->
                                       t[d][q \div 3]
                                       * in[i][k + (q \div 3) * n]
                                              [l + (q % 3) * n]
                                       * t[f][q % 3]], 9)

\* A tangent chunk that does not start the group has been yielded, and the
\* rotation has changed its value.
C8_Witness ==
    /\ pc = "loop" /\ n_chunks > 1 /\ loc.mode = 1
    /\ LastYield.out # LastIntegrated
    /\ \E i \in DOMAIN LastYield.idx : LastYield.idx[i] # i

\* The c33 of every element that a call with the material m would use.
C33With(m) ==
    LET dfm == call_deformation(m, call.u, call.ig,
                                mtx_t[call.ig], bfg[call.ig])
    IN  [e \in Els |-> dfm[e].c33]

=============================================================================
